---- MODULE Spec2Model ----
(***************************************************************************)
(* Model of app.py, the Streamlit page "Historical Artifact Description".  *)
(*                                                                         *)
(* Streamlit re-executes the whole script on every user event; the button  *)
(* value `submit` is True only in the run its click triggered, and each    *)
(* run renders the page from scratch.  One action of the model is one user *)
(* event together with the script run it triggers.                         *)
(*                                                                         *)
(* Text is a sequence of chunks: a chunk is one character of user input or *)
(* one literal of the source.  Non-ASCII characters of the source are      *)
(* written U+XXXX.  Python values that may be None are records             *)
(* [none |-> BOOLEAN, val |-> STRING].                                     *)
(***************************************************************************)
EXTENDS Integers, Sequences, FiniteSets, TLC

VARIABLES
    env,                     \* os.environ after load_dotenv(): partial map name -> value
    genaiRejectsMissingKey,  \* whether the installed genai.Client raises on a missing key
    page,                    \* "none" | "ok" | "halted12" | "halted73": how far the latest run got
    client,                  \* the module-level genai client of the latest run
    PROMPT_OPTIONS,          \* the catalog as the latest run defined it
    uploaded_file,           \* widget state of st.file_uploader
    prompt_choice,           \* widget state of st.selectbox
    input_text,              \* widget state of st.text_area
    submit,                  \* value of st.button in the latest run
    display,                 \* blocks rendered below the divider by the latest run
    requests,                \* generate_content calls issued by the latest run
    replies,                 \* what the endpoint answered to them
    touched,                 \* history: the user changed the selector in this session
    prevShown,               \* history: what was displayed just before the latest run
    validated,               \* history: number of runs that reached the else branch of line 104
    calls                    \* history: number of generate_content calls

vars == <<env, genaiRejectsMissingKey, page, client, PROMPT_OPTIONS, uploaded_file,
          prompt_choice, input_text, submit, display, requests, replies, touched,
          prevShown, validated, calls>>

---------------------------------------------------------------------------
(* Bounds *)

MaxLen == 2

MaxCalls == 2

---------------------------------------------------------------------------
(* Python values *)

None == [none |-> TRUE, val |-> ""]

Str(s) == [none |-> FALSE, val |-> s]

\* truthiness of an Optional[str]
Truthy(v) == ~v.none /\ v.val # ""

\* a or b
Or(a, b) == IF Truthy(a) THEN a ELSE b

\* os.getenv(name)
getenv(name) == IF name \in DOMAIN env THEN Str(env[name]) ELSE None

EnvNames == {"GEMINI_API_KEY", "GOOGLE_API_KEY"}

EnvValues == {"", "AIza-test-key"}

Environments == UNION {[names -> EnvValues] : names \in SUBSET EnvNames}

\* os.getenv("GEMINI_API_KEY") or os.getenv("GOOGLE_API_KEY")
ResolvedKey == Or(getenv("GEMINI_API_KEY"), getenv("GOOGLE_API_KEY"))

---------------------------------------------------------------------------
(* Text *)

Whitespace == {" ", "\t", "\n", "\r", "\f"}

Chars == {" ", "x"}

RECURSIVE TextsOfLen(_)
TextsOfLen(n) ==
    IF n = 0 THEN {<<>>}
    ELSE {Append(t, c) : t \in TextsOfLen(n - 1), c \in Chars}

Texts == UNION {TextsOfLen(n) : n \in 0..MaxLen}

RECURSIVE LStrip(_)
LStrip(s) == IF s # <<>> /\ Head(s) \in Whitespace THEN LStrip(Tail(s)) ELSE s

RECURSIVE RStrip(_)
RStrip(s) ==
    IF s # <<>> /\ s[Len(s)] \in Whitespace THEN RStrip(SubSeq(s, 1, Len(s) - 1)) ELSE s

\* str.strip()
Strip(s) == RStrip(LStrip(s))

---------------------------------------------------------------------------
(* The prompt catalog *)

CatalogLiteral == <<
    [label |-> "Describe",
     template |-> <<"You are a historian. Provide a comprehensive description of the historical artifact in the image. Include its physical appearance, materials, craftsmanship, and overall significance.">>],
    [label |-> "Identify & Classify",
     template |-> <<"You are an expert art historian. Identify and classify the artifact in the image. Specify its type, estimated era or period, materials used, cultural origin, and any distinguishing features that help with identification.">>],
    [label |-> "Historical Context",
     template |-> <<"You are a historian. Analyze the historical context of this artifact. Explain the time period it comes from, the historical events or culture it relates to, and how it would have been used or valued in its time.">>],
    [label |-> "Origin & Significance",
     template |-> <<"You are a cultural historian. Describe the origin of this artifact(U+2014)where it likely came from, the culture that produced it(U+2014)and explain its historical and cultural significance. Why does it matter today?">>],
    [label |-> "Cultural Analysis",
     template |-> <<"You are an expert in cultural heritage. Analyze the artifact's cultural meaning, symbolism, religious or social significance, and how it reflects the values or beliefs of the people who created it.">>],
    [label |-> "Conservation & Condition",
     template |-> <<"You are a museum conservator. Assess the artifact's current condition, visible signs of wear or aging, potential materials and techniques used in its creation, and any conservation considerations or restoration that might be relevant.">>] >>

\* list(d.keys())
Keys(d) == [i \in 1..Len(d) |-> d[i].label]

\* d[k]
Lookup(d, k) == (CHOOSE i \in 1..Len(d) : d[i].label = k)

Item(d, k) == d[Lookup(d, k)].template

---------------------------------------------------------------------------
(* Uploaded files *)

NoFile == [present |-> FALSE, name |-> "", type |-> "", bytes |-> <<>>]

PngFile == [present |-> TRUE, name |-> "axe.png", type |-> "image/png",
            bytes |-> <<137, 80, 78, 71>>]

JpgFile == [present |-> TRUE, name |-> "vase.jpg", type |-> "image/jpeg",
            bytes |-> <<255, 216, 255>>]

TextAsPng == [present |-> TRUE, name |-> "notes.png", type |-> "image/png",
              bytes |-> <<104, 105>>]

Files == {PngFile, JpgFile, TextAsPng}

StartsWith(s, p) == Len(s) >= Len(p) /\ SubSeq(s, 1, Len(p)) = p

\* Image.open identifies the format from the leading bytes and raises otherwise
ImageOpenOK(f) ==
    \/ StartsWith(f.bytes, <<137, 80, 78, 71>>)
    \/ StartsWith(f.bytes, <<255, 216, 255>>)

---------------------------------------------------------------------------
(* The model endpoint *)

ModelName == "gemini-3-flash-preview"

ResponseTexts == {<<"A bronze axe head.">>, <<"**Roman** amphora">>}

ErrorMessages == {<<"quota exceeded">>, <<"401 UNAUTHENTICATED">>}

Outcomes == {[ok |-> TRUE, text |-> t] : t \in ResponseTexts}
            \cup {[ok |-> FALSE, text |-> m] : m \in ErrorMessages}

\* line 26 with the stripped text interpolated instead of the text as passed
FullPrompt_Stripped(text, prompt) ==
    IF Strip(text) # <<>>
    THEN prompt \o <<"\n\n", "Additional context from user: ">> \o Strip(text)
    ELSE prompt

\* line 26 with the condition `if input_text` instead of `if input_text.strip()`
FullPrompt_NoStripTest(text, prompt) ==
    IF text # <<>>
    THEN prompt \o <<"\n\n", "Additional context from user: ">> \o text
    ELSE prompt

\* line 26
FullPrompt(text, prompt) ==
    IF Strip(text) # <<>>
    THEN prompt \o <<"\n\n", "Additional context from user: ">> \o text
    ELSE prompt

\* lines 25-33 with the call repeated once after a failure
get_gemini_response_Retry(text, image_bytes, mime_type, prompt, outcome) ==
    LET request == [model |-> "gemini-3-flash-preview",
                    full_prompt |-> FullPrompt(text, prompt),
                    data |-> image_bytes,
                    mime_type |-> mime_type]
    IN  [requests |-> IF outcome.ok THEN <<request>> ELSE <<request, request>>,
         replies |-> IF outcome.ok THEN <<outcome>> ELSE <<outcome, outcome>>,
         raised |-> ~outcome.ok, value |-> outcome.text]

\* lines 25-33: one generate_content call; its exception propagates to the caller
get_gemini_response(text, image_bytes, mime_type, prompt, outcome) ==
    LET request == [model |-> ModelName,
                    full_prompt |-> FullPrompt(text, prompt),
                    data |-> image_bytes,
                    mime_type |-> mime_type]
    IN  [requests |-> <<request>>, replies |-> <<outcome>>,
         raised |-> ~outcome.ok, value |-> outcome.text]

---------------------------------------------------------------------------
(* The submit handler, lines 98-117 *)

Block(kind, body) == [kind |-> kind, body |-> body]

ConfigMessage == <<"Add GEMINI_API_KEY or GOOGLE_API_KEY to your .env file.">>

InputMessage == <<"Please upload an image first.">>

\* lines 100-104 without the elif of line 102
Validate_NoImageCheck(api_key, f) ==
    IF ~Truthy(api_key) THEN "config" ELSE "generate"

\* lines 100-104 with the two checks in the other order
Validate_ImageFirst(api_key, f) ==
    IF ~f.present THEN "input"
    ELSE IF ~Truthy(api_key) THEN "config"
    ELSE "generate"

\* lines 100-104: which branch the handler takes
Validate(api_key, f) ==
    IF ~Truthy(api_key) THEN "config"
    ELSE IF ~f.present THEN "input"
    ELSE "generate"

\* input_text or ""
OrEmpty(text) == IF text # <<>> THEN text ELSE <<>>

\* lines 113-115 without the label in the heading and without line 115
RenderResult_NoBody(choice, response) ==
    << Block("subheader", <<"U+1F4DC ", "Result: ">>),
       Block("markdown", <<"---">>) >>

\* lines 113-115
RenderResult(choice, response) ==
    << Block("subheader", <<"U+1F4DC ", "Result: ", choice>>),
       Block("markdown", <<"---">>),
       Block("markdown", response) >>

\* line 117 without str(e)
RenderError_Generic(message) == << Block("error", <<"Error: ", "generation failed">>) >>

\* line 117
RenderError(message) == << Block("error", <<"Error: ">> \o message) >>

\* lines 105-117 with the heading of line 113 emitted before the call of line 109
Generate_HeadingFirst(f, choice, text, catalog, outcome) ==
    LET r == get_gemini_response(OrEmpty(text), f.bytes, f.type,
                                 Item(catalog, choice), outcome)
        heading == << Block("subheader", <<"U+1F4DC ", "Result: ", choice>>) >>
    IN  [blocks |-> IF r.raised THEN heading \o RenderError(r.value)
                    ELSE RenderResult(choice, r.value),
         requests |-> r.requests, replies |-> r.replies, validated |-> TRUE]

\* lines 105-117
Generate(f, choice, text, catalog, outcome) ==
    LET r == get_gemini_response(OrEmpty(text), f.bytes, f.type,
                                 Item(catalog, choice), outcome)
    IN  [blocks |-> IF r.raised THEN RenderError(r.value)
                    ELSE RenderResult(choice, r.value),
         requests |-> r.requests, replies |-> r.replies, validated |-> TRUE]

NoCall(blocks) ==
    [blocks |-> blocks, requests |-> <<>>, replies |-> <<>>, validated |-> FALSE]

SubmitHandler(api_key, f, choice, text, catalog, outcome) ==
    LET branch == Validate(api_key, f)
    IN  IF branch = "config" THEN NoCall(<<Block("error", ConfigMessage)>>)
        ELSE IF branch = "input" THEN NoCall(<<Block("error", InputMessage)>>)
        ELSE Generate(f, choice, text, catalog, outcome)

---------------------------------------------------------------------------
(* One script run *)

\* line 12: genai.Client(api_key=...) runs at module level, outside any try.
\* With a key it returns a client.  With None or "" the outcome belongs to the
\* installed google-genai, which the repository does not pin: released
\* versions raise ValueError("Missing key inputs argument! ..."), so both
\* outcomes are kept, fixed for the lifetime of the process.
ClientRaises(api_key) == ~Truthy(api_key) /\ genaiRejectsMissingKey

DefaultIndex == 0

\* lines 79-84 with index=1
Selectbox_IndexOne(options, state) ==
    IF state \in {options[i] : i \in 1..Len(options)} THEN state
    ELSE options[2]

\* lines 79-84: the widget's value, options[index] until the user picks one
Selectbox(options, state) ==
    IF state \in {options[i] : i \in 1..Len(options)} THEN state
    ELSE options[DefaultIndex + 1]

Kind(blocks) ==
    IF blocks = <<>> THEN "none"
    ELSE IF \E i \in 1..Len(blocks) : blocks[i].kind = "error" THEN "error"
    ELSE "result"

\* The run triggered by an event that left the widgets at f, sel, text.
Script(f, sel, text, clicked, outcome) ==
    LET api_key == ResolvedKey IN
    /\ uploaded_file' = f
    /\ input_text' = text
    /\ prevShown' = Kind(display)
    /\ UNCHANGED <<env, genaiRejectsMissingKey>>
    /\ IF ClientRaises(api_key) THEN
           \* line 12 raises: nothing below it runs
           /\ page' = "halted12"
           /\ prompt_choice' = sel
           /\ submit' = FALSE
           /\ display' = <<>> /\ requests' = <<>> /\ replies' = <<>>
           /\ UNCHANGED <<client, PROMPT_OPTIONS, validated, calls>>
       ELSE IF f.present /\ ~ImageOpenOK(f) THEN
           \* line 73 raises: the selector, the text area and the button are not reached
           /\ page' = "halted73"
           /\ client' = api_key
           /\ PROMPT_OPTIONS' = CatalogLiteral
           /\ prompt_choice' = sel
           /\ submit' = FALSE
           /\ display' = <<>> /\ requests' = <<>> /\ replies' = <<>>
           /\ UNCHANGED <<validated, calls>>
       ELSE
           LET choice == Selectbox(Keys(CatalogLiteral), sel)
               out == IF clicked
                      THEN SubmitHandler(api_key, f, choice, text, CatalogLiteral, outcome)
                      ELSE NoCall(<<>>)
           IN  /\ page' = "ok"
               /\ client' = api_key
               /\ PROMPT_OPTIONS' = CatalogLiteral
               /\ prompt_choice' = choice
               /\ submit' = clicked
               /\ display' = out.blocks
               /\ requests' = out.requests
               /\ replies' = out.replies
               /\ validated' = validated + (IF out.validated THEN 1 ELSE 0)
               /\ calls' = calls + Len(out.requests)

AnyOutcome == CHOOSE o \in Outcomes : TRUE

---------------------------------------------------------------------------
(* State machine *)

NoValue == ""

Init ==
    /\ env \in Environments
    /\ genaiRejectsMissingKey \in BOOLEAN
    /\ page = "none"
    /\ client = None
    /\ PROMPT_OPTIONS = <<>>
    /\ uploaded_file = NoFile
    /\ prompt_choice = NoValue
    /\ input_text = <<>>
    /\ submit = FALSE
    /\ display = <<>> /\ requests = <<>> /\ replies = <<>>
    /\ touched = FALSE
    /\ prevShown = "none"
    /\ validated = 0 /\ calls = 0

\* the browser opens or reloads the page: a new session with default widgets
LoadPage ==
    /\ touched' = FALSE
    /\ Script(NoFile, NoValue, <<>>, FALSE, AnyOutcome)

\* the user picks a file in the uploader (lines 65-70)
UploadFile ==
    /\ page \in {"ok", "halted73"}
    /\ \E f \in Files :
        /\ f # uploaded_file
        /\ Script(f, prompt_choice, input_text, FALSE, AnyOutcome)
    /\ UNCHANGED touched

\* the user removes the file from the uploader
RemoveFile ==
    /\ page \in {"ok", "halted73"}
    /\ uploaded_file.present
    /\ Script(NoFile, prompt_choice, input_text, FALSE, AnyOutcome)
    /\ UNCHANGED touched

\* the user changes the selector (lines 79-84)
SelectOption ==
    /\ page = "ok"
    /\ \E i \in 1..Len(PROMPT_OPTIONS) :
        /\ PROMPT_OPTIONS[i].label # prompt_choice
        /\ Script(uploaded_file, PROMPT_OPTIONS[i].label, input_text, FALSE, AnyOutcome)
    /\ touched' = TRUE

\* the user edits the text area (lines 86-91)
EditText ==
    /\ page = "ok"
    /\ \E t \in Texts :
        /\ t # input_text
        /\ Script(uploaded_file, prompt_choice, t, FALSE, AnyOutcome)
    /\ UNCHANGED touched

\* the user clicks the button (line 93)
Submit ==
    /\ page = "ok"
    /\ calls < MaxCalls
    /\ \E outcome \in Outcomes :
        Script(uploaded_file, prompt_choice, input_text, TRUE, outcome)
    /\ UNCHANGED touched

Next == LoadPage \/ UploadFile \/ RemoveFile \/ SelectOption \/ EditText \/ Submit

Spec == Init /\ [][Next]_vars

---------------------------------------------------------------------------
(* Properties *)

\* the latest run was started by the button and reached the handler of line 98
SubmitRun == page = "ok" /\ submit

KeyResolved == Truthy(ResolvedKey)

SelectedTemplate == Item(PROMPT_OPTIONS, prompt_choice)

ContextLabel == <<"\n\n", "Additional context from user: ">>

\* m occurs in s
Contains(s, m) == \E i \in 1..(Len(s) - Len(m) + 1) : SubSeq(s, i, i + Len(m) - 1) = m

Count(blocks, kind) == Cardinality({i \in 1..Len(blocks) : blocks[i].kind = kind})

Rule == Block("markdown", <<"---">>)

\* the rendered response bodies: markdown blocks other than the rule of line 114
Bodies(blocks) == {i \in 1..Len(blocks) : blocks[i].kind = "markdown" /\ blocks[i] # Rule}

SixLabels == <<"Describe", "Identify & Classify", "Historical Context",
               "Origin & Significance", "Cultural Analysis", "Conservation & Condition">>

\* C1: a submission with a key resolved and no image shows exactly the input
\* error and issues no request; no request is ever issued without an image.
C1_NoImageNoGeneration ==
    /\ (SubmitRun /\ KeyResolved /\ ~uploaded_file.present)
          => (display = <<Block("error", InputMessage)>> /\ requests = <<>>)
    /\ requests # <<>> => uploaded_file.present

C1_Witness ==
    SubmitRun /\ KeyResolved /\ ~uploaded_file.present /\ display # <<>>

\* C2: a submission with no key resolved and no image shows the configuration
\* error alone, not the input error.
C2_KeyCheckFirst ==
    (SubmitRun /\ ~KeyResolved /\ ~uploaded_file.present)
        => /\ display = <<Block("error", ConfigMessage)>>
           /\ \A i \in 1..Len(display) : display[i].body # InputMessage

C2_Witness ==
    SubmitRun /\ ~KeyResolved /\ ~uploaded_file.present /\ display # <<>>

\* C3 as stated: when the trimmed free text is non-empty, the prompt sent is
\* template + "\n\n" + "Additional context from user: " + the TRIMMED text.
C3_TrimmedTextAppended ==
    (requests # <<>> /\ Strip(input_text) # <<>>)
        => \A i \in 1..Len(requests) :
              requests[i].full_prompt = SelectedTemplate \o ContextLabel \o Strip(input_text)

\* C3 amended: when the trimmed free text is non-empty, the prompt sent is
\* template + "\n\n" + "Additional context from user: " + the text as entered,
\* its leading and trailing whitespace included.
C3_RawTextAppended ==
    (requests # <<>> /\ Strip(input_text) # <<>>)
        => \A i \in 1..Len(requests) :
              requests[i].full_prompt = SelectedTemplate \o ContextLabel \o input_text

C3_Witness ==
    /\ requests # <<>>
    /\ Strip(input_text) # <<>>
    /\ Strip(input_text) # input_text

\* C4: when the free text is empty or only whitespace, the prompt sent is the
\* template verbatim.
C4_BlankTextTemplateVerbatim ==
    (requests # <<>> /\ Strip(input_text) = <<>>)
        => \A i \in 1..Len(requests) : requests[i].full_prompt = SelectedTemplate

C4_Witness ==
    requests # <<>> /\ input_text # <<>> /\ Strip(input_text) = <<>>

\* C5: after a submission whose call succeeded, the one request carried the
\* prompt composed from the selected label's template, the file's full bytes
\* and its MIME type; the page shows a heading containing "Result: <label>",
\* then the returned text exactly, and no error block.
C5_SuccessRendersResult ==
    (SubmitRun /\ replies # <<>> /\ replies[Len(replies)].ok)
        => /\ Len(requests) = 1
           /\ requests[1].full_prompt =
                 (IF Strip(input_text) = <<>> THEN SelectedTemplate
                  ELSE SelectedTemplate \o ContextLabel \o input_text)
           /\ requests[1].data = uploaded_file.bytes
           /\ requests[1].mime_type = uploaded_file.type
           /\ display # <<>>
           /\ display[1].kind = "subheader"
           /\ Contains(display[1].body, <<"Result: ", prompt_choice>>)
           /\ display[Len(display)] = Block("markdown", replies[1].text)
           /\ \A i \in 2..(Len(display) - 1) : display[i] = Rule
           /\ Count(display, "error") = 0

C5_Witness ==
    /\ SubmitRun /\ replies # <<>> /\ replies[1].ok
    /\ prompt_choice = "Identify & Classify"
    /\ uploaded_file = PngFile
    /\ input_text = <<>>
    /\ replies[1].text = <<"A bronze axe head.">>

\* C6: after a submission whose call failed with message m, the page shows one
\* error block, "Error: " followed by m, and nothing of a result; every
\* submission ends with exactly one of a result block and an error block.
C6_FailureRendersErrorOnly ==
    /\ (SubmitRun /\ replies # <<>> /\ ~replies[Len(replies)].ok)
          => /\ Len(display) = 1
             /\ display[1].kind = "error"
             /\ display[1].body = <<"Error: ">> \o replies[Len(replies)].text
             /\ Contains(display[1].body, replies[Len(replies)].text)
             /\ Count(display, "subheader") = 0
             /\ Count(display, "markdown") = 0
    /\ SubmitRun
          => (Count(display, "subheader") = 1 /\ Count(display, "error") = 0)
             \/ (Count(display, "subheader") = 0 /\ Count(display, "error") = 1)

C6_Witness ==
    /\ SubmitRun /\ replies # <<>> /\ ~replies[1].ok
    /\ replies[1].text = <<"quota exceeded">>

\* C7: a submission with key and image issues exactly one request, to the
\* fixed model, whether it succeeds or fails; any other submission issues
\* none; the number of requests equals the number of validated submissions.
C7_OneCallPerValidatedSubmission ==
    /\ calls = validated
    /\ (SubmitRun /\ KeyResolved /\ uploaded_file.present) => Len(requests) = 1
    /\ (SubmitRun /\ ~(KeyResolved /\ uploaded_file.present)) => requests = <<>>
    /\ ~submit => requests = <<>>
    /\ \A i \in 1..Len(requests) : requests[i].model = "gemini-3-flash-preview"

C7_Witness ==
    /\ SubmitRun /\ replies # <<>> /\ ~replies[1].ok
    /\ calls = 2 /\ validated = 2

\* C8: with neither variable resolving to a non-empty value, every run gets
\* past the client construction of line 12 and renders the page, and a
\* submission then shows the configuration error.
C8_KeylessStartupRenders ==
    ~KeyResolved
        => /\ page \in {"none", "ok", "halted73"}
           /\ SubmitRun => display = <<Block("error", ConfigMessage)>>

\* C9: at most one outcome is displayed, a result or an error and never both;
\* what is displayed is the outcome of the latest run, which was a submission;
\* and from a displayed result or error the button can be clicked again.
C9_AtMostOneLiveResult ==
    /\ Count(display, "subheader") + Count(display, "error") <= 1
    /\ Cardinality(Bodies(display)) <= 1
    /\ Cardinality(Bodies(display)) = Count(display, "subheader")
    /\ display # <<>> => SubmitRun
    /\ (display # <<>> /\ replies # <<>>)
          => \E i \in 1..Len(display) :
                /\ display[i].kind = (IF replies[Len(replies)].ok THEN "markdown" ELSE "error")
                /\ Contains(display[i].body, replies[Len(replies)].text)
    /\ (display # <<>> /\ calls < MaxCalls) => ENABLED Submit

C9_Witness ==
    /\ SubmitRun
    /\ prevShown = "result"
    /\ Kind(display) = "error"
    /\ replies # <<>>

\* C10: once defined, the catalog holds the six labels in order and no step
\* changes it; the selector offers those labels and shows "Describe" until
\* the user changes it.
C10_CatalogFixedDefaultFirst ==
    /\ [](/\ PROMPT_OPTIONS # <<>> => Keys(PROMPT_OPTIONS) = SixLabels
          /\ page = "ok" => \E i \in 1..Len(PROMPT_OPTIONS) : prompt_choice = PROMPT_OPTIONS[i].label
          /\ (page = "ok" /\ ~touched) => prompt_choice = "Describe")
    /\ [][PROMPT_OPTIONS # <<>> => PROMPT_OPTIONS' = PROMPT_OPTIONS]_vars

C10_Witness ==
    /\ SubmitRun /\ requests # <<>>
    /\ ~touched
    /\ prompt_choice = "Describe"
    /\ Len(PROMPT_OPTIONS) = 6

====
